---------------------------- MODULE Spec2Model ----------------------------
(***************************************************************************)
(* A model of the T3D scene importer of src/src/stores/workspace-store.ts  *)
(* (importFromT3D and its converters) and of the animation container it    *)
(* writes to.                                                              *)
(*                                                                         *)
(* JavaScript values are tagged records: [t |-> "undefined"],              *)
(* [t |-> "null"], numbers, booleans, strings, and the two mutable         *)
(* containers, arrays and objects.  Every container carries the identity   *)
(* of the JavaScript object it stands for in its field ref: two containers *)
(* are the same object exactly when their refs are equal.  JSON.parse      *)
(* names the containers it creates after their place in the document; an   *)
(* array or object literal of the importer names the container it creates  *)
(* after the source container it was made from.  A thrown exception is the *)
(* value [t |-> "throw", err |-> e]; it propagates through every operator. *)
(* Text produced by a template literal is a sequence of pieces, one per    *)
(* fixed fragment and one per decimal digit of an interpolated number.     *)
(***************************************************************************)
EXTENDS Integers, Sequences, FiniteSets, TLC

VARIABLES
    pc,        \* pc[p]: where call p of importFromT3D stands
    file,      \* file[p]: the File call p was given
    doc,       \* doc[p]: the object graph JSON.parse built for call p
    result,    \* result[p]: the ImportedWorkspaceData call p resolved with
    error,     \* error[p]: the Error call p rejected with
    pre,       \* pre[p]: the animation container as call p's projection found it
    projThrew, \* projThrew[p]: the projection of call p threw (and was caught)
    store,     \* the state of useAnimationStore
    input      \* the input element of createFileInput and its change handler

vars == <<pc, file, doc, result, error, pre, projThrew, store, input>>

---------------------------------------------------------------------------
(* JavaScript values *)

Undefined == [t |-> "undefined"]
Null == [t |-> "null"]
N(n) == [t |-> "num", v |-> n]
B(b) == [t |-> "bool", v |-> b]
S(s) == [t |-> "str", v |-> s]
Text(pieces) == [t |-> "text", v |-> pieces]

Throw(e) == [t |-> "throw", err |-> e]
IsThrow(r) == r.t = "throw"

\* A TypeError of the runtime (reading a property of null or undefined,
\* calling something that is no function, spreading a non-iterable).
TypeError == [name |-> "TypeError", message |-> <<"TypeError">>]

Nullish(v) == v.t \in {"undefined", "null"}

\* ToBoolean: the falsy values are undefined, null, 0, false and "".
Truthy(v) ==
    ~ \/ Nullish(v)
      \/ v.t = "num" /\ v.v = 0
      \/ v.t = "bool" /\ v.v = FALSE
      \/ v.t = "str" /\ v.v = ""

\* a === b
StrictEq(a, b) == a.t = b.t /\ a = b

\* a ?? b
Coalesce(a, b) == IF IsThrow(a) THEN a ELSE IF Nullish(a) THEN b ELSE a

\* o.f : a TypeError on null and undefined, undefined when o has no such
\* property.
Prop(o, f) ==
    IF IsThrow(o) THEN o
    ELSE IF Nullish(o) THEN Throw(TypeError)
    ELSE IF o.t = "obj" /\ f \in DOMAIN o.v THEN o.v[f]
    ELSE Undefined

RefOf(v) == IF v.t \in {"arr", "obj"} THEN v.ref ELSE "scalar"

FirstThrow(rs) == rs[CHOOSE k \in DOMAIN rs : IsThrow(rs[k])]

\* An object literal { f1: e1, ... } made from source container src: it
\* throws what one of its field expressions throws, and is a new object
\* otherwise.
ObjLit(tag, src, fields) ==
    IF IsThrow(src) THEN src
    ELSE IF \E k \in DOMAIN fields : IsThrow(fields[k]) THEN FirstThrow(fields)
    ELSE [t |-> "obj", ref |-> tag \o ":" \o RefOf(src), v |-> fields]

\* arr.map(F): a new array.
MapArr(arr, F(_)) ==
    IF IsThrow(arr) THEN arr
    ELSE IF arr.t # "arr" THEN Throw(TypeError)
    ELSE LET rs == [i \in 1..Len(arr.v) |-> F(arr.v[i])]
         IN  IF \E i \in DOMAIN rs : IsThrow(rs[i])
             THEN rs[CHOOSE i \in DOMAIN rs :
                        IsThrow(rs[i]) /\ \A j \in 1..(i-1) : ~IsThrow(rs[j])]
             ELSE [t |-> "arr", ref |-> "map:" \o arr.ref, v |-> rs]

\* [...x]: a new array holding the elements of x (the documents of the
\* model carry no string where a sequence is expected).
Spread(x) ==
    IF IsThrow(x) THEN x
    ELSE IF x.t # "arr" THEN Throw(TypeError)
    ELSE [t |-> "arr", ref |-> "copy:" \o x.ref, v |-> x.v]

---------------------------------------------------------------------------
(* Template literals *)

Digit(d) ==
    CASE d = 0 -> "0" [] d = 1 -> "1" [] d = 2 -> "2" [] d = 3 -> "3"
      [] d = 4 -> "4" [] d = 5 -> "5" [] d = 6 -> "6" [] d = 7 -> "7"
      [] d = 8 -> "8" [] d = 9 -> "9"

RECURSIVE Decimal(_)
Decimal(n) == IF n < 10 THEN <<Digit(n)>>
              ELSE Decimal(n \div 10) \o <<Digit(n % 10)>>

\* ${v}: the pieces of String(v).
Interpolate(v) ==
    CASE v.t = "num" -> Decimal(v.v)
      [] v.t = "str" -> <<v.v>>
      [] v.t = "text" -> v.v
      [] v.t = "bool" -> IF v.v THEN <<"true">> ELSE <<"false">>
      [] v.t = "undefined" -> <<"undefined">>
      [] v.t = "null" -> <<"null">>
      [] OTHER -> <<"[object]">>

---------------------------------------------------------------------------
(* The converters *)

t3dToVector3(v) ==
    ObjLit("vec", v, [x |-> Prop(v, "x"), y |-> Prop(v, "y"), z |-> Prop(v, "z")])

t3dToVector2(v) ==
    ObjLit("vec", v, [x |-> Prop(v, "x"), y |-> Prop(v, "y")])

t3dToVertex(vertex) ==
    ObjLit("conv", vertex,
           [id |-> Prop(vertex, "id"),
            position |-> t3dToVector3(Prop(vertex, "position")),
            normal |-> t3dToVector3(Prop(vertex, "normal")),
            uv |-> t3dToVector2(Prop(vertex, "uv")),
            selected |-> Prop(vertex, "selected")])

t3dToEdge(edge) ==
    ObjLit("conv", edge,
           [id |-> Prop(edge, "id"),
            vertexIds |-> Prop(edge, "vertexIds"),
            faceIds |-> Spread(Prop(edge, "faceIds")),
            selected |-> Prop(edge, "selected")])

t3dToFace(face) ==
    ObjLit("conv", face,
           [id |-> Prop(face, "id"),
            vertexIds |-> Spread(Prop(face, "vertexIds")),
            normal |-> t3dToVector3(Prop(face, "normal")),
            materialId |-> Prop(face, "materialId"),
            selected |-> Prop(face, "selected")])

t3dToTransform(tr) ==
    ObjLit("conv", tr,
           [position |-> t3dToVector3(Prop(tr, "position")),
            rotation |-> t3dToVector3(Prop(tr, "rotation")),
            scale |-> t3dToVector3(Prop(tr, "scale"))])

t3dToMesh(t3dMesh) ==
    ObjLit("conv", t3dMesh,
           [id |-> Prop(t3dMesh, "id"),
            name |-> Prop(t3dMesh, "name"),
            vertices |-> MapArr(Prop(t3dMesh, "vertices"), t3dToVertex),
            edges |-> MapArr(Prop(t3dMesh, "edges"), t3dToEdge),
            faces |-> MapArr(Prop(t3dMesh, "faces"), t3dToFace),
            transform |-> t3dToTransform(Prop(t3dMesh, "transform")),
            visible |-> Prop(t3dMesh, "visible"),
            locked |-> Prop(t3dMesh, "locked")])

\* EmissiveIntensity with || in the place of ??.
EmissiveIntensityOr(t3dMaterial) ==
    LET x == Prop(t3dMaterial, "emissiveIntensity")
    IN  IF IsThrow(x) THEN x ELSE IF Truthy(x) THEN x ELSE N(1)

EmissiveIntensity(t3dMaterial) ==
    Coalesce(Prop(t3dMaterial, "emissiveIntensity"), N(1))

t3dToMaterial(t3dMaterial) ==
    ObjLit("conv", t3dMaterial,
           [id |-> Prop(t3dMaterial, "id"),
            name |-> Prop(t3dMaterial, "name"),
            color |-> t3dToVector3(Prop(t3dMaterial, "color")),
            roughness |-> Prop(t3dMaterial, "roughness"),
            metalness |-> Prop(t3dMaterial, "metalness"),
            emissive |-> t3dToVector3(Prop(t3dMaterial, "emissive")),
            emissiveIntensity |-> EmissiveIntensity(t3dMaterial)])

Render(t3dObject) == Coalesce(Prop(t3dObject, "render"), B(TRUE))

t3dToSceneObject(t3dObject) ==
    ObjLit("conv", t3dObject,
           [id |-> Prop(t3dObject, "id"),
            name |-> Prop(t3dObject, "name"),
            type |-> Prop(t3dObject, "type"),
            parentId |-> Prop(t3dObject, "parentId"),
            children |-> Spread(Prop(t3dObject, "children")),
            transform |-> t3dToTransform(Prop(t3dObject, "transform")),
            visible |-> Prop(t3dObject, "visible"),
            locked |-> Prop(t3dObject, "locked"),
            render |-> Render(t3dObject),
            meshId |-> Prop(t3dObject, "meshId"),
            lightId |-> Prop(t3dObject, "lightId"),
            cameraId |-> Prop(t3dObject, "cameraId")])

ActiveCameraObjectId(t3dViewport) ==
    Coalesce(Prop(t3dViewport, "activeCameraObjectId"), Null)

t3dToCamera(cam) ==
    ObjLit("conv", cam,
           [position |-> t3dToVector3(Prop(cam, "position")),
            target |-> t3dToVector3(Prop(cam, "target")),
            up |-> t3dToVector3(Prop(cam, "up")),
            fov |-> Prop(cam, "fov"),
            near |-> Prop(cam, "near"),
            far |-> Prop(cam, "far")])

t3dToViewport(t3dViewport) ==
    ObjLit("conv", t3dViewport,
           [camera |-> t3dToCamera(Prop(t3dViewport, "camera")),
            shadingMode |-> Prop(t3dViewport, "shadingMode"),
            showGrid |-> Prop(t3dViewport, "showGrid"),
            showAxes |-> Prop(t3dViewport, "showAxes"),
            gridSize |-> Prop(t3dViewport, "gridSize"),
            backgroundColor |-> t3dToVector3(Prop(t3dViewport, "backgroundColor")),
            activeCameraObjectId |-> ActiveCameraObjectId(t3dViewport)])

---------------------------------------------------------------------------
(* JSON text and JSON.parse *)

\* The syntax tree of a JSON text: arrays and objects not yet built.
JA(seq) == [t |-> "arr", v |-> seq]
JO(rec) == [t |-> "obj", v |-> rec]

\* JSON.parse builds a new container for every array and object of the
\* text; at names the place of the value in the document.
RECURSIVE Build(_, _)
Build(j, at) ==
    CASE j.t = "arr" ->
           [t |-> "arr", ref |-> at,
            v |-> [i \in 1..Len(j.v) |-> Build(j.v[i], at \o "." \o Digit(i))]]
      [] j.t = "obj" ->
           [t |-> "obj", ref |-> at,
            v |-> [k \in DOMAIN j.v |-> Build(j.v[k], at \o "." \o k)]]
      [] OTHER -> j

SyntaxError == [name |-> "SyntaxError", message |-> <<"Unexpected end of JSON input">>]

\* JSON.parse(text): a text is its syntax tree, or is cut off before its end.
JSONParse(text) ==
    IF text.syntax = "json" THEN Build(text.tree, "$") ELSE Throw(SyntaxError)

JsonText(tree) == [syntax |-> "json", tree |-> tree]
TruncatedText == [syntax |-> "truncated"]

\* A File: the bytes of a zip archive with its named entries, or other bytes.
NotAZip == [zip |-> FALSE]
Zip(entries) == [zip |-> TRUE, entries |-> entries]
SceneZip(text) == Zip("scene.json" :> text)

\* JSZip's rejection of bytes that are no archive.
ZipError == [name |-> "Error", message |-> <<"Can't find end of central directory">>]

\* zip.loadAsync(file)
loadAsync(f) ==
    IF f.zip THEN [t |-> "zip", entries |-> f.entries] ELSE Throw(ZipError)

\* zipContents.file(name): null when the archive has no such entry.
zipFile(zipContents, name) ==
    IF name \in DOMAIN zipContents.entries THEN zipContents.entries[name] ELSE Null

---------------------------------------------------------------------------
(* Version check *)

T3D_VERSION == [major |-> N(1), minor |-> N(0), patch |-> N(0)]

\* isVersionCompatible asking for the same minor version too.
isVersionCompatibleMinor(version) ==
    LET major == Prop(version, "major")
    IN  IF IsThrow(major) THEN major
        ELSE B(/\ StrictEq(major, T3D_VERSION.major)
               /\ StrictEq(Prop(version, "minor"), T3D_VERSION.minor))

isVersionCompatible(version) ==
    LET major == Prop(version, "major")
    IN  IF IsThrow(major) THEN major ELSE B(StrictEq(major, T3D_VERSION.major))

\* `${v.major}.${v.minor}.${v.patch}`
VersionString(version) ==
    LET major == Prop(version, "major")
        minor == Prop(version, "minor")
        patch == Prop(version, "patch")
    IN  IF IsThrow(major) THEN major
        ELSE Text(Interpolate(major) \o <<".">> \o Interpolate(minor)
                  \o <<".">> \o Interpolate(patch))

CurrentVersionString ==
    Text(Interpolate(T3D_VERSION.major) \o <<".">> \o Interpolate(T3D_VERSION.minor)
         \o <<".">> \o Interpolate(T3D_VERSION.patch))

Error(message) == [name |-> "Error", message |-> message]

MissingEntryError == Error(<<"Invalid T3D file: scene.json not found">>)
MalformedJsonError == Error(<<"Invalid T3D file: scene.json is not valid JSON">>)
MissingFieldError == Error(<<"Invalid T3D file: missing required data">>)
ImportFailedError == Error(<<"Failed to import T3D file: Unknown error occurred">>)
VersionMismatchError(versionString, currentVersionString) ==
    Error(<<"Incompatible T3D version: ">> \o versionString.v
          \o <<". Current version: ">> \o currentVersionString.v)

---------------------------------------------------------------------------
(* Validation and conversion of the parsed document *)

Ok == [t |-> "ok"]

\* The structure check: !metadata || !meshes || !materials || !objects.
ValidateStructure(t3dScene) ==
    LET metadata == Prop(t3dScene, "metadata")
    IN  IF IsThrow(metadata) THEN metadata
        ELSE IF \/ ~Truthy(metadata)
                \/ ~Truthy(Prop(t3dScene, "meshes"))
                \/ ~Truthy(Prop(t3dScene, "materials"))
                \/ ~Truthy(Prop(t3dScene, "objects"))
             THEN Throw(MissingFieldError)
             ELSE Ok

\* The version check.
CheckVersion(t3dScene) ==
    LET version == Prop(Prop(t3dScene, "metadata"), "version")
        compatible == isVersionCompatible(version)
    IN  IF IsThrow(compatible) THEN compatible
        ELSE IF ~compatible.v
             THEN Throw(VersionMismatchError(VersionString(version),
                                             CurrentVersionString))
             ELSE Ok

\* ConvertMeshes with the meshes in the opposite order.
ConvertMeshesReversed(t3dScene) ==
    LET ms == MapArr(Prop(t3dScene, "meshes"), t3dToMesh)
    IN  IF IsThrow(ms) THEN ms
        ELSE [ms EXCEPT !.v = [i \in 1..Len(ms.v) |-> ms.v[Len(ms.v) + 1 - i]]]

ConvertMeshes(t3dScene) == MapArr(Prop(t3dScene, "meshes"), t3dToMesh)
ConvertMaterials(t3dScene) == MapArr(Prop(t3dScene, "materials"), t3dToMaterial)
ConvertObjects(t3dScene) == MapArr(Prop(t3dScene, "objects"), t3dToSceneObject)

RECURSIVE Join(_)
Join(pieces) == IF pieces = <<>> THEN "" ELSE Head(pieces) \o Join(Tail(pieces))

\* The property key a value names: String(v).
PropertyKey(v) == Join(Interpolate(v))

\* (l) => [l.id, l]
IdEntry(l) ==
    LET id == Prop(l, "id")
    IN  IF IsThrow(id) THEN id
        ELSE [t |-> "arr", ref |-> "entry:" \o RefOf(l), v |-> <<id, l>>]

\* Object.fromEntries(entries): a new object; of two entries with one key
\* the later one stays.
FromEntries(entries) ==
    IF IsThrow(entries) THEN entries
    ELSE LET es == entries.v
             Key(i) == PropertyKey(es[i].v[1])
             Last(k) == CHOOSE i \in DOMAIN es :
                           Key(i) = k /\ \A j \in DOMAIN es : Key(j) = k => j <= i
         IN  [t |-> "obj", ref |-> "entries:" \o entries.ref,
              v |-> [k \in {Key(i) : i \in DOMAIN es} |-> es[Last(k)].v[2]]]

\* ResourceRecord with {} in the place of undefined.
ResourceRecordOrEmpty(arr) ==
    IF Truthy(arr) THEN FromEntries(MapArr(arr, IdEntry))
    ELSE [t |-> "obj", ref |-> "entries:none", v |-> << >>]

\* arr ? Object.fromEntries(arr.map((x) => [x.id, x])) : undefined
ResourceRecord(arr) ==
    IF Truthy(arr) THEN FromEntries(MapArr(arr, IdEntry)) ELSE Undefined

ResultMetadata(metadata) ==
    ObjLit("metadata", metadata,
           [version |-> VersionString(Prop(metadata, "version")),
            created |-> Prop(metadata, "created"),
            modified |-> Prop(metadata, "modified"),
            author |-> Prop(metadata, "author"),
            description |-> Prop(metadata, "description"),
            application |-> Prop(metadata, "application"),
            applicationVersion |-> Prop(metadata, "applicationVersion")])

\* The conversions and the result literal.
AssembleResult(t3dScene) ==
    ObjLit("result", t3dScene,
           [meshes |-> ConvertMeshes(t3dScene),
            materials |-> ConvertMaterials(t3dScene),
            objects |-> ConvertObjects(t3dScene),
            rootObjects |-> Spread(Prop(t3dScene, "rootObjects")),
            viewport |-> t3dToViewport(Prop(t3dScene, "viewport")),
            selectedObjectId |-> Prop(t3dScene, "selectedObjectId"),
            lights |-> ResourceRecord(Prop(t3dScene, "lights")),
            cameras |-> ResourceRecord(Prop(t3dScene, "cameras")),
            metadata |-> ResultMetadata(Prop(t3dScene, "metadata"))])

---------------------------------------------------------------------------
(* The animation container and the projection into it *)

EmptyMap == [k \in {} |-> Null]

Put(m, k, x) == [j \in DOMAIN m \cup {k} |-> IF j = k THEN x ELSE m[j]]

\* The container before any clip is made.
BaselineStore ==
    [playing |-> B(FALSE), playhead |-> N(0),
     selection |-> [trackIds |-> <<>>, keys |-> EmptyMap],
     clips |-> EmptyMap, clipOrder |-> <<>>, activeClipId |-> Null,
     tracks |-> EmptyMap, sortedCache |-> EmptyMap, markers |-> <<>>,
     soloTrackIds |-> {},
     fps |-> N(24), autoKey |-> B(FALSE), snapping |-> B(TRUE),
     timelinePanelOpen |-> B(FALSE), lastUsedFps |-> N(24)]

\* ResetAnimation that puts the whole baseline in, fps and preferences too.
ResetAnimationToBaseline(s) == BaselineStore

\* ResetAnimation that leaves the tracks in.
ResetAnimationKeepsTracks(s) ==
    [s EXCEPT !.playing = B(FALSE), !.playhead = N(0),
              !.selection = [trackIds |-> <<>>, keys |-> EmptyMap],
              !.clips = EmptyMap, !.clipOrder = <<>>, !.activeClipId = Null,
              !.sortedCache = EmptyMap,
              !.markers = <<>>, !.soloTrackIds = {}]

\* ResetAnimation that leaves the clips and their order in.
ResetAnimationKeepsClips(s) ==
    [s EXCEPT !.playing = B(FALSE), !.playhead = N(0),
              !.selection = [trackIds |-> <<>>, keys |-> EmptyMap],
              !.activeClipId = Null,
              !.tracks = EmptyMap, !.sortedCache = EmptyMap,
              !.markers = <<>>, !.soloTrackIds = {}]

\* The reset: the runtime and data fields, fps and the preferences kept.
ResetAnimation(s) ==
    [s EXCEPT !.playing = B(FALSE), !.playhead = N(0),
              !.selection = [trackIds |-> <<>>, keys |-> EmptyMap],
              !.clips = EmptyMap, !.clipOrder = <<>>, !.activeClipId = Null,
              !.tracks = EmptyMap, !.sortedCache = EmptyMap,
              !.markers = <<>>, !.soloTrackIds = {}]

\* s.fps = anim.fps ?? s.fps
ApplyFps(s, anim) == [s EXCEPT !.fps = Coalesce(Prop(anim, "fps"), s.fps)]

MaterializeKey(k) ==
    ObjLit("key", k, [id |-> Prop(k, "id"), t |-> Prop(k, "t"),
                      v |-> Prop(k, "v"), interp |-> Prop(k, "interp")])

MaterializeChannel(t) ==
    ObjLit("channel", t,
           [id |-> IF IsThrow(Prop(t, "id")) THEN Prop(t, "id")
                   ELSE Text(Interpolate(Prop(t, "id")) \o <<":ch">>),
            keys |-> MapArr(Prop(t, "keys"), MaterializeKey)])

MaterializeTrack(t) ==
    ObjLit("track", t,
           [id |-> Prop(t, "id"),
            targetType |-> S("sceneObject"),
            targetId |-> Prop(t, "targetId"),
            property |-> Prop(t, "property"),
            channel |-> MaterializeChannel(t)])

TrackId(t) == Prop(t, "id")

ClipRecord(c) ==
    ObjLit("clip", c,
           [id |-> Prop(c, "id"), name |-> Prop(c, "name"),
            start |-> Prop(c, "start"), end |-> Prop(c, "end"),
            loop |-> Prop(c, "loop"), speed |-> Prop(c, "speed"),
            trackIds |-> MapArr(Prop(c, "tracks"), TrackId)])

\* s.tracks[t.id] = ... for every track of ts in turn.
PutTracks(m, ts) ==
    LET Key(i) == PropertyKey(ts[i].v.id)
        Last(k) == CHOOSE i \in DOMAIN ts :
                      Key(i) = k /\ \A j \in DOMAIN ts : Key(j) = k => j <= i
    IN  [k \in DOMAIN m \cup {Key(i) : i \in DOMAIN ts} |->
            IF \E i \in DOMAIN ts : Key(i) = k THEN ts[Last(k)] ELSE m[k]]

\* MaterializeClip without the push onto clipOrder.
MaterializeClipUnordered(s, c) ==
    LET clip == ClipRecord(c)
        tracks == MapArr(Prop(c, "tracks"), MaterializeTrack)
    IN  IF IsThrow(clip) THEN clip
        ELSE IF IsThrow(tracks) THEN tracks
        ELSE [t |-> "ok",
              store |-> [s EXCEPT !.clips = Put(@, PropertyKey(clip.v.id), clip),
                                  !.tracks = PutTracks(@, tracks.v)]]

\* The producer given to setState for clip c.  The container applies a
\* producer as a whole or, when it throws, not at all.
MaterializeClip(s, c) ==
    LET clip == ClipRecord(c)
        tracks == MapArr(Prop(c, "tracks"), MaterializeTrack)
    IN  IF IsThrow(clip) THEN clip
        ELSE IF IsThrow(tracks) THEN tracks
        ELSE [t |-> "ok",
              store |-> [s EXCEPT !.clips = Put(@, PropertyKey(clip.v.id), clip),
                                  !.clipOrder = Append(@, clip.v.id),
                                  !.tracks = PutTracks(@, tracks.v)]]

\* anim.clips?.forEach(...): the clips in turn, up to the first that throws.
RECURSIVE ForEachClip(_, _, _)
ForEachClip(s, cs, i) ==
    IF i > Len(cs) THEN [store |-> s, threw |-> FALSE]
    ELSE LET r == MaterializeClip(s, cs[i])
         IN  IF IsThrow(r) THEN [store |-> s, threw |-> TRUE]
             ELSE ForEachClip(r.store, cs, i + 1)

RecreateClips(s, anim) ==
    LET clips == Prop(anim, "clips")
    IN  IF Nullish(clips) THEN [store |-> s, threw |-> FALSE]
        ELSE IF clips.t # "arr" THEN [store |-> s, threw |-> TRUE]
        ELSE ForEachClip(s, clips.v, 1)

\* ActiveClipChoice that takes the first clip whatever the payload declares.
ActiveClipChoiceFirst(anim) ==
    LET clips == Prop(anim, "clips")
        first == IF clips.t = "arr" /\ Len(clips.v) > 0 THEN clips.v[1]
                 ELSE Undefined
        firstId == IF Nullish(first) THEN Undefined ELSE Prop(first, "id")
    IN  Coalesce(firstId, Null)

\* anim.activeClipId ?? (anim.clips?.[0]?.id ?? null)
ActiveClipChoice(anim) ==
    LET clips == Prop(anim, "clips")
        first == IF clips.t = "arr" /\ Len(clips.v) > 0 THEN clips.v[1]
                 ELSE Undefined
        firstId == IF Nullish(first) THEN Undefined ELSE Prop(first, "id")
    IN  Coalesce(Prop(anim, "activeClipId"), Coalesce(firstId, Null))

\* The container's setActiveClip(id).
setActiveClip(s, id) == [s EXCEPT !.activeClipId = id]

\* The ui payload: timelinePanelOpen: !!ui.timelinePanelOpen,
\* lastUsedFps: ui.lastUsedFps ?? s.lastUsedFps.
ApplyUi(s, ui) ==
    [s EXCEPT !.timelinePanelOpen = B(Truthy(Prop(ui, "timelinePanelOpen"))),
              !.lastUsedFps = Coalesce(Prop(ui, "lastUsedFps"), s.lastUsedFps)]

\* The places where the container itself may throw out of a write it has
\* applied (it notifies its subscribers inside the write).
Faults == {"none", "reset", "setActiveClip", "ui"}

\* The body of the inner try: the container it leaves, and whether it threw.
AnimationProjection(t3dScene, s0, fault) ==
    LET anim == Prop(t3dScene, "animations")
        ui == Prop(t3dScene, "ui")
        s1 == ResetAnimation(s0)
        s2 == ApplyFps(s1, anim)
        r3 == RecreateClips(s2, anim)
        s4 == setActiveClip(r3.store, ActiveClipChoice(anim))
    IN  IF fault = "reset" THEN [store |-> s1, threw |-> TRUE]
        ELSE IF Truthy(anim) /\ r3.threw THEN [store |-> r3.store, threw |-> TRUE]
        ELSE IF Truthy(anim) /\ fault = "setActiveClip"
             THEN [store |-> s4, threw |-> TRUE]
        ELSE LET s5 == IF Truthy(anim) THEN s4 ELSE s1
             IN  IF Truthy(ui)
                 THEN [store |-> ApplyUi(s5, ui), threw |-> fault = "ui"]
                 ELSE [store |-> s5, threw |-> FALSE]

\* ProjectionErrorEscapes of a try without its catch.
ProjectionErrorRethrown(threw) == threw

\* catch {} of the inner try: whether what the projection threw goes on to
\* the outer handler.
ProjectionErrorEscapes(threw) == FALSE

\* The outer handler: an Error is thrown on as it is, anything else is
\* replaced by the generic Error.
IsErrorInstance(e) == e.name \in {"Error", "TypeError", "SyntaxError"}

\* OuterCatch that takes only the pipeline's own Error for an Error.
OuterCatchOwnErrors(e) == IF e.name = "Error" THEN e ELSE ImportFailedError

OuterCatch(e) == IF IsErrorInstance(e) THEN e ELSE ImportFailedError

\* FindSceneFile without the check: the read of the missing entry throws.
FindSceneFileUnchecked(zipContents) ==
    IF IsThrow(zipContents) THEN zipContents
    ELSE LET sceneFile == zipFile(zipContents, "scene.json")
         IN  IF sceneFile = Null THEN Throw(TypeError)
             ELSE [t |-> "file", text |-> sceneFile]

\* The check that scene.json exists.
FindSceneFile(zipContents) ==
    IF IsThrow(zipContents) THEN zipContents
    ELSE LET sceneFile == zipFile(zipContents, "scene.json")
         IN  IF sceneFile = Null THEN Throw(MissingEntryError)
             ELSE [t |-> "file", text |-> sceneFile]

\* ParseScene without the inner try: the parser's exception goes on.
ParseSceneUncaught(sceneJsonText) == JSONParse(sceneJsonText)

\* The handler of the inner try around JSON.parse.
ParseScene(sceneJsonText) ==
    LET parsed == JSONParse(sceneJsonText)
    IN  IF IsThrow(parsed) THEN Throw(MalformedJsonError) ELSE parsed

---------------------------------------------------------------------------
(* The documents and files of the model *)

MaxLen == 2
MaxPart == 2
NumCalls == 2

Calls == 1..NumCalls

Vec3(a, b, c) == JO([x |-> N(a), y |-> N(b), z |-> N(c)])
Vec2(a, b) == JO([x |-> N(a), y |-> N(b)])
Without(rec, fs) == [k \in DOMAIN rec \ fs |-> rec[k]]

TransformTree ==
    JO([position |-> Vec3(0, 0, 0), rotation |-> Vec3(0, 0, 0), scale |-> Vec3(1, 1, 1)])

VertexTree(id) ==
    JO([id |-> S(id), position |-> Vec3(0, 0, 0), normal |-> Vec3(0, 1, 0),
        uv |-> Vec2(0, 0), selected |-> B(FALSE)])

EdgeTree == JO([id |-> S("e1"), vertexIds |-> JA(<<S("v1"), S("v2")>>),
                faceIds |-> JA(<<S("f1")>>), selected |-> B(FALSE)])

FaceTree == JO([id |-> S("f1"), vertexIds |-> JA(<<S("v1"), S("v2")>>),
                normal |-> Vec3(0, 0, 1), materialId |-> S("mat1"),
                selected |-> B(FALSE)])

MeshFields(i) ==
    [id |-> S("mesh" \o Digit(i)), name |-> S("Mesh"),
     vertices |-> JA(<<VertexTree("v1"), VertexTree("v2")>>),
     edges |-> JA(<<EdgeTree>>), faces |-> JA(<<FaceTree>>),
     transform |-> TransformTree, visible |-> B(TRUE), locked |-> B(FALSE)]

MaterialFields(i) ==
    [id |-> S("mat" \o Digit(i)), name |-> S("Material"),
     color |-> Vec3(1, 1, 1), roughness |-> N(1), metalness |-> N(0),
     emissive |-> Vec3(0, 0, 0)]

ObjectFields(i) ==
    [id |-> S("obj" \o Digit(i)), name |-> S("Object"), type |-> S("mesh"),
     parentId |-> Null, children |-> JA(<<>>), transform |-> TransformTree,
     visible |-> B(TRUE), locked |-> B(FALSE), meshId |-> S("mesh" \o Digit(i))]

ViewportFields ==
    [camera |-> JO([position |-> Vec3(5, 5, 5), target |-> Vec3(0, 0, 0),
                    up |-> Vec3(0, 1, 0), fov |-> N(50), near |-> N(1),
                    far |-> N(1000)]),
     shadingMode |-> S("solid"), showGrid |-> B(TRUE), showAxes |-> B(TRUE),
     gridSize |-> N(10), backgroundColor |-> Vec3(0, 0, 0)]

MetadataFields(major, minor, patch) ==
    [version |-> JO([major |-> N(major), minor |-> N(minor), patch |-> N(patch)]),
     created |-> S("2024-01-01"), modified |-> S("2024-01-02"),
     application |-> S("freed"), applicationVersion |-> S("0.1.0")]

Seq1(n, F(_)) == JA([i \in 1..n |-> JO(F(i))])

\* A scene document with nm meshes, nt materials and no objects at the
\* given version.
SceneFields(nm, nt, no, major, minor, patch) ==
    [metadata |-> JO(MetadataFields(major, minor, patch)),
     meshes |-> Seq1(nm, MeshFields),
     materials |-> Seq1(nt, MaterialFields),
     objects |-> Seq1(no, ObjectFields),
     rootObjects |-> JA([i \in 1..no |-> S("obj" \o Digit(i))]),
     viewport |-> JO(ViewportFields),
     selectedObjectId |-> Null]

BaseFields == SceneFields(1, 1, 1, 1, 0, 0)

SceneFile(fields) == SceneZip(JsonText(JO(fields)))

\* Files that fail before a document is there, and texts that parse to
\* something that is no object.
BrokenFiles ==
    { NotAZip,
      Zip("readme.txt" :> JsonText(JO(BaseFields))),
      SceneZip(TruncatedText),
      SceneZip(JsonText(Null)),
      SceneZip(JsonText(N(5))),
      SceneZip(JsonText(N(0))),
      SceneZip(JsonText(B(TRUE))),
      SceneZip(JsonText(S("scene"))),
      SceneZip(JsonText(JA(<<>>))),
      SceneZip(JsonText(JO(EmptyMap))) }

RequiredFields == {"metadata", "meshes", "materials", "objects"}

\* Documents lacking some of the fields, at the current and at another
\* major version.
FieldFiles ==
    { SceneFile(Without(SceneFields(1, 1, 1, major, 0, 0), miss)) :
        miss \in SUBSET (RequiredFields \cup {"rootObjects", "viewport"}),
        major \in {1, 2} }

\* Documents of every combination of lengths.
LengthFiles ==
    { SceneFile(SceneFields(nm, nt, no, 1, 0, 0)) :
        nm \in 0..MaxLen, nt \in 0..MaxLen, no \in 0..MaxLen }

Parts == 0..MaxPart \cup {10 + MaxPart}

\* Documents of every version.
VersionFiles ==
    { SceneFile(SceneFields(1, 1, 1, major, minor, patch)) :
        major \in Parts, minor \in Parts, patch \in Parts }

\* The values a document can give an optional field.
OptionalValues ==
    {Null, N(0), N(1), N(2), B(FALSE), B(TRUE), S(""), S("cam1")}

\* fields with field f given every optional value, and without f.
Variants(fields, f) ==
    {Without(fields, {f})} \cup {(f :> x) @@ fields : x \in OptionalValues}

\* Documents whose material, object and viewport give or omit an optional
\* field.
DefaultFiles ==
    { SceneFile([materials |-> JA(<<JO(m), JO(MaterialFields(2))>>)] @@ BaseFields) :
        m \in Variants(MaterialFields(1), "emissiveIntensity") }
    \cup
    { SceneFile([objects |-> JA(<<JO(o)>>)] @@ BaseFields) :
        o \in Variants(ObjectFields(1), "render") }
    \cup
    { SceneFile([viewport |-> JO(w)] @@ BaseFields) :
        w \in Variants(ViewportFields, "activeCameraObjectId") }

\* Documents that have the four checked fields and lack a nested one.
MalformedFiles ==
    { SceneFile([meshes |-> JA(<<JO(MeshFields(1)), JO(Without(MeshFields(2), {f}))>>)]
                @@ BaseFields) : f \in {"vertices", "edges", "faces", "transform"} }
    \cup
    { SceneFile([materials |-> JA(<<JO(Without(MaterialFields(1), {f}))>>)]
                @@ BaseFields) : f \in {"color", "emissive"} }
    \cup
    { SceneFile([objects |-> JA(<<JO(Without(ObjectFields(1), {f}))>>)]
                @@ BaseFields) : f \in {"children", "transform"} }
    \cup
    { SceneFile([viewport |-> JO(Without(ViewportFields, {f}))] @@ BaseFields) :
        f \in {"camera", "backgroundColor"} }
    \cup
    { SceneFile([meshes |-> x] @@ BaseFields) : x \in {N(5), JA(<<Null>>), S("meshes")} }
    \cup
    { SceneFile([metadata |-> x] @@ BaseFields) :
        x \in {N(1), JO(Without(MetadataFields(1, 0, 0), {"version"})),
               JO([version |-> JO([minor |-> N(0), patch |-> N(0)])]),
               JO([version |-> JO([major |-> S("1"), minor |-> N(0), patch |-> N(0)])]),
               JO([version |-> JO([major |-> N(1)])])} }

LightTree(id, kind) == JO([id |-> S(id), type |-> S(kind), intensity |-> N(1)])
CameraTree(id) == JO([id |-> S(id), type |-> S("perspective"), fov |-> N(50)])

\* Documents with and without lights and cameras.
ResourceFiles ==
    { SceneFile(ls @@ cs @@ BaseFields) :
        ls \in {EmptyMap, [lights |-> Null], [lights |-> B(FALSE)],
                [lights |-> JA(<<>>)],
                [lights |-> JA(<<LightTree("light1", "point")>>)],
                [lights |-> JA(<<LightTree("light1", "point"), LightTree("light2", "spot")>>)],
                [lights |-> JA(<<LightTree("light1", "point"), LightTree("light1", "spot")>>)],
                [lights |-> JA(<<Null>>)]},
        cs \in {EmptyMap, [cameras |-> JA(<<>>)],
                [cameras |-> JA(<<CameraTree("cam1")>>)]} }

\* Documents with two defects: a mesh without vertices in a document of
\* another major version, or in one without materials.
DefectFiles ==
    { SceneFile([meshes |-> JA(<<JO(Without(MeshFields(1), {"vertices"}))>>)]
                @@ SceneFields(1, 1, 1, 2, 0, 0)),
      SceneFile(Without([meshes |-> JA(<<JO(Without(MeshFields(1), {"vertices"}))>>)]
                        @@ BaseFields, {"materials"})) }

Files ==
    BrokenFiles \cup FieldFiles \cup LengthFiles \cup VersionFiles
    \cup DefaultFiles \cup MalformedFiles \cup ResourceFiles \cup DefectFiles

KeyTree(id, time) == JO([id |-> S(id), t |-> N(time), v |-> N(time), interp |-> S("linear")])

TrackFields(id) ==
    [id |-> S(id), targetId |-> S("obj1"), property |-> S("position.x"),
     keys |-> JA(<<KeyTree(id \o "k1", 0), KeyTree(id \o "k2", 1)>>)]

ClipFields(id, tracks) ==
    [id |-> S(id), name |-> S("Clip"), start |-> N(0), end |-> N(5),
     loop |-> B(TRUE), speed |-> N(1), tracks |-> JA(tracks)]

Clip1 == JO(ClipFields("clip1", <<JO(TrackFields("t1")), JO(TrackFields("t2"))>>))
Clip2 == JO(ClipFields("clip2", <<JO(TrackFields("t3"))>>))
\* A second clip under the id of Clip1.
Clip1Again == JO(ClipFields("clip1", <<JO(TrackFields("t3"))>>))

\* The animations payloads: well formed ones, and ones whose clips, clip
\* or track lack what the projection reads.
AnimationPayloads ==
    { EmptyMap,
      [animations |-> Null],
      [animations |-> JO(EmptyMap)],
      [animations |-> JO([fps |-> N(60), clips |-> JA(<<>>)])],
      [animations |-> JO([fps |-> N(60), clips |-> JA(<<Clip1>>), activeClipId |-> S("clip1")])],
      [animations |-> JO([clips |-> JA(<<Clip1, Clip2>>)])],
      [animations |-> JO([clips |-> JA(<<Clip1, Clip1Again>>)])],
      [animations |-> JO([fps |-> Null, clips |-> JA(<<Clip1, Clip2>>), activeClipId |-> S("clip2")])],
      [animations |-> JO([clips |-> JA(<<Clip2>>), activeClipId |-> S("ghost")])],
      [animations |-> JO([fps |-> N(60), clips |-> N(5), activeClipId |-> S("clip1")])],
      [animations |-> JO([clips |-> JA(<<Clip1, JO(Without(ClipFields("clip2", <<>>), {"tracks"}))>>),
                          activeClipId |-> S("clip1")])],
      [animations |-> JO([clips |-> JA(<<Clip2, JO(ClipFields("clip3",
                              <<JO(TrackFields("t4")), JO(Without(TrackFields("t5"), {"keys"}))>>))>>)])],
      [animations |-> JO([fps |-> N(60), clips |-> JA(<<Null, Clip1>>)])] }

UiPayloads ==
    { EmptyMap,
      [ui |-> JO([timelinePanelOpen |-> B(TRUE)])],
      [ui |-> JO([timelinePanelOpen |-> B(FALSE), lastUsedFps |-> N(12)])] }

\* Documents with an animations and a ui payload, and files that fail.
AnimationFiles ==
    { SceneFile(a @@ u @@ BaseFields) : a \in AnimationPayloads, u \in UiPayloads }
    \cup
    { NotAZip, SceneZip(TruncatedText), SceneZip(JsonText(Null)),
      SceneFile(Without(BaseFields, {"meshes"})),
      SceneFile(SceneFields(1, 1, 1, 2, 0, 0)),
      SceneFile([animations |-> JO([fps |-> N(60), clips |-> JA(<<Clip1>>)])]
                @@ Without(BaseFields, {"viewport"})) }


---------------------------------------------------------------------------
(* The calls of importFromT3D *)

NoFile == [none |-> TRUE]
NoError == [name |-> "none", message |-> <<>>]
NoStore == [none |-> TRUE]

\* The input element as createFileInput returns it: no file chosen, no
\* change event handled, no callback called.
NoInput ==
    [value |-> "", phase |-> "idle", outcome |-> "none",
     data |-> Undefined, error |-> NoError, onImport |-> <<>>, onError |-> <<>>]

\* The container after a session of work in the timeline.
UsedStore ==
    [BaselineStore EXCEPT
        !.playing = B(TRUE), !.playhead = N(5),
        !.selection = [trackIds |-> <<"userTrack">>,
                       keys |-> ("userTrack" :> <<"userKey">>)],
        !.clips = ("userClip" :> JO([id |-> S("userClip"), trackIds |-> JA(<<S("userTrack")>>)])),
        !.clipOrder = <<S("userClip")>>, !.activeClipId = S("userClip"),
        !.tracks = ("userTrack" :> JO([id |-> S("userTrack")])),
        !.markers = <<"userMarker">>, !.soloTrackIds = {"userTrack"},
        !.fps = N(30), !.autoKey = B(TRUE), !.timelinePanelOpen = B(TRUE)]

InitialStores == {BaselineStore, UsedStore}

Init ==
    /\ pc = [p \in Calls |-> "idle"]
    /\ file = [p \in Calls |-> NoFile]
    /\ doc = [p \in Calls |-> Undefined]
    /\ result = [p \in Calls |-> Undefined]
    /\ error = [p \in Calls |-> NoError]
    /\ pre = [p \in Calls |-> NoStore]
    /\ projThrew = [p \in Calls |-> FALSE]
    /\ store \in InitialStores
    /\ input = NoInput

\* importFromT3D(f) up to its first await.
Call(p, f) ==
    /\ pc[p] = "idle"
    /\ pc' = [pc EXCEPT ![p] = "loadAsync"]
    /\ file' = [file EXCEPT ![p] = f]
    /\ UNCHANGED <<doc, result, error, pre, projThrew, store>>

Reject(p, e, d) ==
    /\ pc' = [pc EXCEPT ![p] = "rejected"]
    /\ error' = [error EXCEPT ![p] = OuterCatch(e)]
    /\ doc' = [doc EXCEPT ![p] = d]
    /\ UNCHANGED <<file, result, pre, projThrew, store>>

\* From the end of loadAsync to the await of sceneFile.async('text').
Loaded(p) ==
    /\ pc[p] = "loadAsync"
    /\ LET sceneFile == FindSceneFile(loadAsync(file[p]))
       IN  IF IsThrow(sceneFile) THEN Reject(p, sceneFile.err, Undefined)
           ELSE /\ pc' = [pc EXCEPT ![p] = "readText"]
                /\ UNCHANGED <<file, doc, result, error, pre, projThrew, store>>

\* Read with the version check made before the structure check.
ReadVersionFirst(p, fault) ==
    /\ pc[p] = "readText"
    /\ LET t3dScene == ParseScene(FindSceneFile(loadAsync(file[p])).text)
           structure == ValidateStructure(t3dScene)
           version == CheckVersion(t3dScene)
           converted == AssembleResult(t3dScene)
           projection == AnimationProjection(t3dScene, store, fault)
       IN  IF IsThrow(t3dScene) THEN Reject(p, t3dScene.err, Undefined)
           ELSE IF IsThrow(version) THEN Reject(p, version.err, t3dScene)
           ELSE IF IsThrow(structure) THEN Reject(p, structure.err, t3dScene)
           ELSE IF IsThrow(converted) THEN Reject(p, converted.err, t3dScene)
           ELSE /\ doc' = [doc EXCEPT ![p] = t3dScene]
                /\ pre' = [pre EXCEPT ![p] = store]
                /\ store' = projection.store
                /\ projThrew' = [projThrew EXCEPT ![p] = projection.threw]
                /\ pc' = [pc EXCEPT ![p] = "resolved"]
                /\ result' = [result EXCEPT ![p] = converted]
                /\ UNCHANGED <<file, error>>

\* Read with the reset of the container made before the conversions.
ReadResetFirst(p, fault) ==
    /\ pc[p] = "readText"
    /\ LET t3dScene == ParseScene(FindSceneFile(loadAsync(file[p])).text)
           structure == ValidateStructure(t3dScene)
           version == CheckVersion(t3dScene)
           converted == AssembleResult(t3dScene)
           projection == AnimationProjection(t3dScene, store, fault)
       IN  IF IsThrow(t3dScene) THEN Reject(p, t3dScene.err, Undefined)
           ELSE IF IsThrow(structure) THEN Reject(p, structure.err, t3dScene)
           ELSE IF IsThrow(version) THEN Reject(p, version.err, t3dScene)
           ELSE IF IsThrow(converted)
                THEN /\ pc' = [pc EXCEPT ![p] = "rejected"]
                     /\ error' = [error EXCEPT ![p] = OuterCatch(converted.err)]
                     /\ doc' = [doc EXCEPT ![p] = t3dScene]
                     /\ store' = ResetAnimation(store)
                     /\ UNCHANGED <<file, result, pre, projThrew>>
           ELSE /\ doc' = [doc EXCEPT ![p] = t3dScene]
                /\ pre' = [pre EXCEPT ![p] = store]
                /\ store' = projection.store
                /\ projThrew' = [projThrew EXCEPT ![p] = projection.threw]
                /\ pc' = [pc EXCEPT ![p] = "resolved"]
                /\ result' = [result EXCEPT ![p] = converted]
                /\ UNCHANGED <<file, error>>

\* From the text of scene.json to the end of the call.
Read(p, fault) ==
    /\ pc[p] = "readText"
    /\ LET t3dScene == ParseScene(FindSceneFile(loadAsync(file[p])).text)
           structure == ValidateStructure(t3dScene)
           version == CheckVersion(t3dScene)
           converted == AssembleResult(t3dScene)
           projection == AnimationProjection(t3dScene, store, fault)
       IN  IF IsThrow(t3dScene) THEN Reject(p, t3dScene.err, Undefined)
           ELSE IF IsThrow(structure) THEN Reject(p, structure.err, t3dScene)
           ELSE IF IsThrow(version) THEN Reject(p, version.err, t3dScene)
           ELSE IF IsThrow(converted) THEN Reject(p, converted.err, t3dScene)
           ELSE /\ doc' = [doc EXCEPT ![p] = t3dScene]
                /\ pre' = [pre EXCEPT ![p] = store]
                /\ store' = projection.store
                /\ projThrew' = [projThrew EXCEPT ![p] = projection.threw]
                /\ IF ProjectionErrorEscapes(projection.threw)
                   THEN /\ pc' = [pc EXCEPT ![p] = "rejected"]
                        /\ error' = [error EXCEPT ![p] = OuterCatch(TypeError)]
                        /\ UNCHANGED <<file, result>>
                   ELSE /\ pc' = [pc EXCEPT ![p] = "resolved"]
                        /\ result' = [result EXCEPT ![p] = converted]
                        /\ UNCHANGED <<file, error>>

\* The caller has taken the outcome of call p.
Settle(p) ==
    /\ pc[p] \in {"resolved", "rejected"}
    /\ pc' = [pc EXCEPT ![p] = "idle"]
    /\ file' = [file EXCEPT ![p] = NoFile]
    /\ doc' = [doc EXCEPT ![p] = Undefined]
    /\ result' = [result EXCEPT ![p] = Undefined]
    /\ error' = [error EXCEPT ![p] = NoError]
    /\ pre' = [pre EXCEPT ![p] = NoStore]
    /\ projThrew' = [projThrew EXCEPT ![p] = FALSE]
    /\ UNCHANGED store

FirstCall == CHOOSE p \in Calls : \A q \in Calls : p <= q
AllIdle == \A p \in Calls : pc[p] = "idle"

\* A caller that awaits each import before it starts the next.
Import(f) == AllIdle /\ Call(FirstCall, f)

Next ==
    \/ \E f \in Files : Import(f) /\ UNCHANGED input
    \/ \E p \in Calls : Loaded(p) /\ UNCHANGED input
    \/ \E p \in Calls : Read(p, "none") /\ UNCHANGED input
    \/ \E p \in Calls : Settle(p) /\ UNCHANGED input

Spec == Init /\ [][Next]_vars

\* The same caller with the files that carry animation payloads.
NextAnim ==
    \/ \E f \in AnimationFiles : Import(f) /\ UNCHANGED input
    \/ \E p \in Calls : Loaded(p) /\ UNCHANGED input
    \/ \E p \in Calls : Read(p, "none") /\ UNCHANGED input
    \/ \E p \in Calls : Settle(p) /\ UNCHANGED input

SpecAnim == Init /\ [][NextAnim]_vars

\* The same, with a container that may throw out of a write.
NextFault ==
    \/ \E f \in AnimationFiles : Import(f) /\ UNCHANGED input
    \/ \E p \in Calls : Loaded(p) /\ UNCHANGED input
    \/ \E p \in Calls, fault \in Faults : Read(p, fault) /\ UNCHANGED input
    \/ \E p \in Calls : Settle(p) /\ UNCHANGED input

SpecFault == Init /\ [][NextFault]_vars

---------------------------------------------------------------------------
(* Calls that overlap *)

\* Documents with different animations payloads, and a file that fails.
ConcurrentFiles ==
    { SceneFile(a @@ BaseFields) :
        a \in { EmptyMap,
                [animations |-> JO([fps |-> N(60), clips |-> JA(<<Clip1>>),
                                    activeClipId |-> S("clip1")])],
                [animations |-> JO([clips |-> JA(<<Clip1, Clip2>>)])],
                [animations |-> JO([clips |-> JA(<<Clip2>>)])] } }
    \cup {NotAZip}

\* A call made while no call made before it has ended: the calls of a
\* run all overlap.  Each resumes from its awaits at any later time.
Overlap(p, f) ==
    /\ \A q \in Calls : pc[q] \notin {"resolved", "rejected"}
    /\ Call(p, f)

NextConcurrent ==
    \/ \E p \in Calls, f \in ConcurrentFiles : Overlap(p, f) /\ UNCHANGED input
    \/ \E p \in Calls : Loaded(p) /\ UNCHANGED input
    \/ \E p \in Calls : Read(p, "none") /\ UNCHANGED input

SpecConcurrent == Init /\ [][NextConcurrent]_vars

---------------------------------------------------------------------------
(* createFileInput: the change handler of the input element *)

\* What a callback given to createFileInput does when it is called.
Callbacks == [onImport : {"returns", "throws"}, onError : {"returns", "throws"}]

\* What a callback that throws throws.
CallbackError == Error(<<"callback failed">>)

\* A change event with a file chosen: the handler up to its await of
\* importFromT3D(file).
Change(f) ==
    /\ AllIdle /\ input.phase # "awaiting"
    /\ Call(FirstCall, f)
    /\ input' = [NoInput EXCEPT !.value = "chosen", !.phase = "awaiting"]

\* A change event with no file chosen: only the clean-up runs.
ChangeWithoutFile ==
    /\ AllIdle /\ input.phase # "awaiting"
    /\ input' = [NoInput EXCEPT !.phase = "done"]
    /\ UNCHANGED <<pc, file, doc, result, error, pre, projThrew, store>>

\* The handler from the end of its await to its end: onImport(data) inside
\* the try, onError(error) in the catch of that try, then the clean-up,
\* which an exception out of onError skips.
Deliver(p, cb) ==
    /\ pc[p] \in {"resolved", "rejected"} /\ input.phase = "awaiting"
    /\ LET resolved == pc[p] = "resolved"
           caught == IF resolved
                     THEN IF cb.onImport = "throws" THEN <<CallbackError>> ELSE <<>>
                     ELSE <<error[p]>>
           escapes == caught # <<>> /\ cb.onError = "throws"
       IN  input' = [value |-> IF escapes THEN input.value ELSE "",
                     phase |-> IF escapes THEN "unhandled" ELSE "done",
                     outcome |-> pc[p],
                     data |-> result[p], error |-> error[p],
                     onImport |-> IF resolved THEN <<result[p]>> ELSE <<>>,
                     onError |-> caught]
    /\ Settle(p)

NextInput ==
    \/ \E f \in Files : Change(f)
    \/ ChangeWithoutFile
    \/ \E p \in Calls : Loaded(p) /\ UNCHANGED input
    \/ \E p \in Calls : Read(p, "none") /\ UNCHANGED input
    \/ \E p \in Calls, cb \in Callbacks : Deliver(p, cb)

SpecInput == Init /\ [][NextInput]_vars

---------------------------------------------------------------------------
(* What the claims speak of *)

Done(p) == pc[p] \in {"resolved", "rejected"}
Resolved(p) == pc[p] = "resolved"
Rejected(p) == pc[p] = "rejected"

HasSceneText(f) == f.zip /\ "scene.json" \in DOMAIN f.entries
SceneText(f) == f.entries["scene.json"]
ParsesAsJson(f) == HasSceneText(f) /\ SceneText(f).syntax = "json"
Tree(f) == SceneText(f).tree

Has(o, f) == o.t = "obj" /\ f \in DOMAIN o.v
Field(o, f) == IF Has(o, f) THEN o.v[f] ELSE Undefined

IsNum(x) == x.t = "num"
IsStr(x) == x.t = "str"
IsBool(x) == x.t = "bool"
IsArrayOf(x, P(_)) == x.t = "arr" /\ \A i \in DOMAIN x.v : P(x.v[i])
IsOptional(o, f, P(_)) == Has(o, f) => P(o.v[f])

\* The shape of a scene document.
ValidVec3(x) == Has(x, "x") /\ Has(x, "y") /\ Has(x, "z")
                /\ IsNum(x.v.x) /\ IsNum(x.v.y) /\ IsNum(x.v.z)
ValidVec2(x) == Has(x, "x") /\ Has(x, "y") /\ IsNum(x.v.x) /\ IsNum(x.v.y)
ValidTransform(x) ==
    /\ ValidVec3(Field(x, "position")) /\ ValidVec3(Field(x, "rotation"))
    /\ ValidVec3(Field(x, "scale"))
ValidVertex(x) ==
    /\ IsStr(Field(x, "id")) /\ ValidVec3(Field(x, "position"))
    /\ ValidVec3(Field(x, "normal")) /\ ValidVec2(Field(x, "uv"))
    /\ IsBool(Field(x, "selected"))
ValidEdge(x) ==
    /\ IsStr(Field(x, "id")) /\ IsArrayOf(Field(x, "vertexIds"), IsStr)
    /\ IsArrayOf(Field(x, "faceIds"), IsStr) /\ IsBool(Field(x, "selected"))
ValidFace(x) ==
    /\ IsStr(Field(x, "id")) /\ IsArrayOf(Field(x, "vertexIds"), IsStr)
    /\ ValidVec3(Field(x, "normal")) /\ IsBool(Field(x, "selected"))
ValidMesh(x) ==
    /\ IsStr(Field(x, "id")) /\ IsStr(Field(x, "name"))
    /\ IsArrayOf(Field(x, "vertices"), ValidVertex)
    /\ IsArrayOf(Field(x, "edges"), ValidEdge)
    /\ IsArrayOf(Field(x, "faces"), ValidFace)
    /\ ValidTransform(Field(x, "transform"))
    /\ IsBool(Field(x, "visible")) /\ IsBool(Field(x, "locked"))
ValidMaterial(x) ==
    /\ IsStr(Field(x, "id")) /\ IsStr(Field(x, "name"))
    /\ ValidVec3(Field(x, "color")) /\ IsNum(Field(x, "roughness"))
    /\ IsNum(Field(x, "metalness")) /\ ValidVec3(Field(x, "emissive"))
    /\ IsOptional(x, "emissiveIntensity", IsNum)
ValidObject(x) ==
    /\ IsStr(Field(x, "id")) /\ IsStr(Field(x, "name")) /\ IsStr(Field(x, "type"))
    /\ IsArrayOf(Field(x, "children"), IsStr)
    /\ ValidTransform(Field(x, "transform"))
    /\ IsBool(Field(x, "visible")) /\ IsBool(Field(x, "locked"))
    /\ IsOptional(x, "render", IsBool)
ValidCamera(x) ==
    /\ ValidVec3(Field(x, "position")) /\ ValidVec3(Field(x, "target"))
    /\ ValidVec3(Field(x, "up")) /\ IsNum(Field(x, "fov"))
    /\ IsNum(Field(x, "near")) /\ IsNum(Field(x, "far"))
ValidViewport(x) ==
    /\ ValidCamera(Field(x, "camera")) /\ IsStr(Field(x, "shadingMode"))
    /\ IsBool(Field(x, "showGrid")) /\ IsBool(Field(x, "showAxes"))
    /\ IsNum(Field(x, "gridSize")) /\ ValidVec3(Field(x, "backgroundColor"))
    /\ IsOptional(x, "activeCameraObjectId", IsStr)
ValidVersion(x) ==
    IsNum(Field(x, "major")) /\ IsNum(Field(x, "minor")) /\ IsNum(Field(x, "patch"))
ValidMetadata(x) ==
    /\ ValidVersion(Field(x, "version"))
    /\ IsStr(Field(x, "created")) /\ IsStr(Field(x, "modified"))
    /\ IsStr(Field(x, "application")) /\ IsStr(Field(x, "applicationVersion"))
ValidResource(x) == IsStr(Field(x, "id"))
ValidSceneDocument(x) ==
    /\ ValidMetadata(Field(x, "metadata"))
    /\ IsArrayOf(Field(x, "meshes"), ValidMesh)
    /\ IsArrayOf(Field(x, "materials"), ValidMaterial)
    /\ IsArrayOf(Field(x, "objects"), ValidObject)
    /\ IsArrayOf(Field(x, "rootObjects"), IsStr)
    /\ ValidViewport(Field(x, "viewport"))
    /\ IsOptional(x, "lights", LAMBDA a : IsArrayOf(a, ValidResource))
    /\ IsOptional(x, "cameras", LAMBDA a : IsArrayOf(a, ValidResource))

DocMajor(f) == Tree(f).v.metadata.v.version.v.major

\* out lists the converted entities of src: as many, with the ids of src
\* in the order of src.
SameIds(out, src) ==
    /\ out.t = "arr"
    /\ Len(out.v) = Len(src.v)
    /\ \A i \in DOMAIN src.v : out.v[i].t = "obj" /\ out.v[i].v.id = src.v[i].v.id

---------------------------------------------------------------------------
(* The claims *)

\* C1: an archive whose scene.json is a valid scene document of the
\* current major version is imported: the call resolves, and the meshes,
\* materials and objects it returns are as many as the document's and carry
\* the document's ids in the document's order.
C1_ValidDocumentIsImported ==
    \A p \in Calls :
        (/\ Done(p) /\ ParsesAsJson(file[p])
         /\ ValidSceneDocument(Tree(file[p]))
         /\ DocMajor(file[p]) = T3D_VERSION.major)
        => /\ Resolved(p)
           /\ SameIds(result[p].v.meshes, Tree(file[p]).v.meshes)
           /\ SameIds(result[p].v.materials, Tree(file[p]).v.materials)
           /\ SameIds(result[p].v.objects, Tree(file[p]).v.objects)

C1_Witness ==
    \E p \in Calls :
        /\ Resolved(p) /\ ValidSceneDocument(Tree(file[p]))
        /\ Len(result[p].v.meshes.v) = 2
        /\ Len(result[p].v.materials.v) = 1
        /\ Len(result[p].v.objects.v) = 0

\* C2: an archive without an entry scene.json is rejected with the
\* missing-entry error; the call never goes on to read or resolve, and no
\* result is there.
C2_MissingEntryIsRejected ==
    \A p \in Calls :
        (pc[p] # "idle" /\ file[p].zip /\ ~HasSceneText(file[p]))
        => /\ pc[p] \in {"loadAsync", "rejected"}
           /\ result[p] = Undefined
           /\ Rejected(p) =>
                error[p] = [name |-> "Error",
                            message |-> <<"Invalid T3D file: scene.json not found">>]

C2_Witness ==
    \E p \in Calls : Rejected(p) /\ file[p].zip /\ ~HasSceneText(file[p])

\* C3: a scene.json that is not valid JSON is rejected with the
\* malformed-JSON error, which names scene.json, and with neither the
\* generic import-failed error nor the parser's own exception.
C3_MalformedJsonIsRejected ==
    \A p \in Calls :
        (Done(p) /\ HasSceneText(file[p]) /\ SceneText(file[p]).syntax # "json")
        => /\ Rejected(p)
           /\ error[p] = [name |-> "Error",
                          message |-> <<"Invalid T3D file: scene.json is not valid JSON">>]
           /\ error[p] # ImportFailedError
           /\ error[p].name # "SyntaxError"

C3_Witness ==
    \E p \in Calls :
        Rejected(p) /\ HasSceneText(file[p]) /\ SceneText(file[p]).syntax # "json"

\* C4: a scene.json that parses, to whatever value, and lacks one of
\* metadata, meshes, materials and objects is rejected with the
\* missing-field error; a document that has the four, be they empty
\* sequences, is not rejected with it.
C4_MissingFieldIsRejected ==
    \A p \in Calls :
        (Done(p) /\ ParsesAsJson(file[p]))
        => LET tree == Tree(file[p])
               present == \A f \in RequiredFields : Has(tree, f)
           IN  /\ ~present => Rejected(p) /\ error[p] = MissingFieldError
               /\ (present /\ \A f \in RequiredFields : tree.v[f].t \in {"arr", "obj"})
                     => error[p] # MissingFieldError

\* Reading a version string back: the decimal numerals between the dots.
IsDigit(c) == \E d \in 0..9 : Digit(d) = c
DigitValue(c) == CHOOSE d \in 0..9 : Digit(d) = c

RECURSIVE DecimalValue(_)
DecimalValue(ds) ==
    IF Len(ds) = 1 THEN DigitValue(ds[1])
    ELSE 10 * DecimalValue(SubSeq(ds, 1, Len(ds) - 1)) + DigitValue(ds[Len(ds)])

IsNumeral(ds) == ds # <<>> /\ \A i \in DOMAIN ds : IsDigit(ds[i])

\* pieces reads major.minor.patch.
Reads(pieces, major, minor, patch) ==
    \E i, j \in DOMAIN pieces :
        /\ i < j /\ pieces[i] = "." /\ pieces[j] = "."
        /\ LET a == SubSeq(pieces, 1, i - 1)
               b == SubSeq(pieces, i + 1, j - 1)
               c == SubSeq(pieces, j + 1, Len(pieces))
           IN  /\ IsNumeral(a) /\ IsNumeral(b) /\ IsNumeral(c)
               /\ DecimalValue(a) = major
               /\ DecimalValue(b) = minor
               /\ DecimalValue(c) = patch

\* message holds, after the fragment lead, a version string reading
\* major.minor.patch that ends where a fragment other than a numeral begins
\* or the message ends.
NamesVersion(message, lead, major, minor, patch) ==
    \E i, j \in DOMAIN message :
        /\ i > 1 /\ message[i - 1] = lead /\ i <= j
        /\ j = Len(message) \/ (~IsDigit(message[j + 1]) /\ message[j + 1] # ".")
        /\ Reads(SubSeq(message, i, j), major, minor, patch)

IsVersionMismatch(e) ==
    /\ e # NoError /\ e.name = "Error"
    /\ Head(e.message) = "Incompatible T3D version: "

\* The document of the file passes the structure check and states a version
\* of three numbers.
StatesVersion(f) ==
    /\ ParsesAsJson(f)
    /\ \A r \in RequiredFields : Has(Tree(f), r) /\ Tree(f).v[r].t \in {"arr", "obj"}
    /\ ValidVersion(Field(Tree(f).v.metadata, "version"))

DocVersion(f) == Tree(f).v.metadata.v.version.v

\* C5: a document is accepted by the version check exactly when its
\* major version equals the current one, whatever its minor and patch; a
\* rejected document's error names the document's and the current version,
\* each as major.minor.patch; the metadata of a result gives the document's
\* version as major.minor.patch.
C5_VersionCheck ==
    \A p \in Calls :
        (Done(p) /\ StatesVersion(file[p]))
        => LET v == DocVersion(file[p])
           IN  /\ IsVersionMismatch(error[p]) <=> v.major # T3D_VERSION.major
               /\ IsVersionMismatch(error[p]) =>
                    /\ Rejected(p)
                    /\ NamesVersion(error[p].message, "Incompatible T3D version: ",
                                    v.major.v, v.minor.v, v.patch.v)
                    /\ NamesVersion(error[p].message, ". Current version: ",
                                    T3D_VERSION.major.v, T3D_VERSION.minor.v,
                                    T3D_VERSION.patch.v)
               /\ Resolved(p) =>
                    /\ result[p].v.metadata.v.version.t = "text"
                    /\ Reads(result[p].v.metadata.v.version.v,
                             v.major.v, v.minor.v, v.patch.v)

\* A document of another major version, with a minor version of two
\* digits, has been rejected by the version check.
C5_Witness ==
    \E p \in Calls :
        /\ Rejected(p) /\ StatesVersion(file[p])
        /\ IsVersionMismatch(error[p])
        /\ DocVersion(file[p]).minor.v >= 10

\* The document of the file passes the structure and the version check.
PassesChecks(f) == StatesVersion(f) /\ DocVersion(f).major = T3D_VERSION.major

\* The errors the parser and the validator raise, the archive reader's, and
\* the generic one.
IsTypedError(e) ==
    \/ e \in {MissingEntryError, MalformedJsonError, MissingFieldError,
              ZipError, ImportFailedError}
    \/ IsVersionMismatch(e)

WithoutPayloads(d) == [d EXCEPT !.v = Without(@, {"animations", "ui"})]

\* C7: when the animation projection throws, at the reset, at a clip or
\* track of a malformed payload, in setActiveClip or at the ui payload, the
\* call resolves all the same, with the data of the document: those it
\* returns for the document without the payloads.
C7_ProjectionFailureIsSuppressed ==
    \A p \in Calls :
        (Done(p) /\ projThrew[p])
        => /\ Resolved(p)
           /\ error[p] = NoError
           /\ result[p] = AssembleResult(WithoutPayloads(doc[p]))
           /\ SameIds(result[p].v.meshes, doc[p].v.meshes)

C7_Witness ==
    \E p \in Calls :
        /\ Resolved(p) /\ projThrew[p]
        /\ Has(doc[p], "animations") /\ store # pre[p]

\* The ids of the clips and of the tracks the document gives.
DocClips(d) ==
    LET clips == Field(Field(d, "animations"), "clips")
    IN  IF clips.t = "arr" THEN {clips.v[i] : i \in DOMAIN clips.v} ELSE {}
DocClipIds(d) == {PropertyKey(Field(c, "id")) : c \in DocClips(d)}
DocTracks(d) ==
    UNION { LET ts == Field(c, "tracks")
            IN  IF ts.t = "arr" THEN {ts.v[i] : i \in DOMAIN ts.v} ELSE {}
            : c \in DocClips(d) }
DocTrackIds(d) == {PropertyKey(Field(t, "id")) : t \in DocTracks(d)}

Range(seq) == {seq[i] : i \in DOMAIN seq}

\* C8: after a call that resolved the container holds no clip, entry of
\* clipOrder, track, marker, selected track or key, or solo track that it
\* held before the call and the document does not give; after a document
\* without animations payload it is at the empty baseline.  So it is after
\* every import of a sequence.
C8_NoStaleAnimationState ==
    \A p \in Calls :
        Resolved(p) =>
            /\ (DOMAIN store.clips \cap DOMAIN pre[p].clips) \subseteq DocClipIds(doc[p])
            /\ \A c \in Range(store.clipOrder) \cap Range(pre[p].clipOrder) :
                  PropertyKey(c) \in DocClipIds(doc[p])
            /\ (DOMAIN store.tracks \cap DOMAIN pre[p].tracks) \subseteq DocTrackIds(doc[p])
            /\ (DOMAIN store.sortedCache \cap DOMAIN pre[p].sortedCache)
                  \subseteq DocTrackIds(doc[p])
            /\ store.markers = <<>>
            /\ store.selection = [trackIds |-> <<>>, keys |-> EmptyMap]
            /\ store.soloTrackIds = {}
            /\ ~Truthy(Field(doc[p], "animations")) =>
                  /\ store.playing = B(FALSE) /\ store.playhead = N(0)
                  /\ store.clips = EmptyMap /\ store.clipOrder = <<>>
                  /\ store.tracks = EmptyMap /\ store.activeClipId = Null

\* A document with clips has been imported into a container that held
\* clips, tracks, markers, a selection and solo tracks.
C8_Witness ==
    \E p \in Calls :
        /\ Resolved(p)
        /\ pre[p].clips # EmptyMap /\ pre[p].tracks # EmptyMap
        /\ pre[p].markers # <<>> /\ pre[p].soloTrackIds # {}
        /\ store.clips # EmptyMap /\ store.tracks # EmptyMap

\* The value converted from field f of o when every present value is kept,
\* and when null is taken for absent.
KeptOrDefault(o, f, default) == IF Has(o, f) THEN o.v[f] ELSE default
KeptUnlessNull(o, f, default) ==
    IF Has(o, f) /\ o.v[f] # Null THEN o.v[f] ELSE default

\* The optional fields of the result are those Expected gives for the
\* document.
DefaultsFollow(p, Expected(_, _, _)) ==
    LET tree == Tree(file[p])
        out == result[p].v
    IN  /\ \A i \in DOMAIN tree.v.materials.v :
              out.materials.v[i].v.emissiveIntensity
                 = Expected(tree.v.materials.v[i], "emissiveIntensity", N(1))
        /\ \A i \in DOMAIN tree.v.objects.v :
              out.objects.v[i].v.render
                 = Expected(tree.v.objects.v[i], "render", B(TRUE))
        /\ out.viewport.v.activeCameraObjectId
              = Expected(tree.v.viewport, "activeCameraObjectId", Null)

\* C9 as stated: emissiveIntensity, render and activeCameraObjectId of the
\* result are the defaults 1, true and none exactly when the document omits
\* the field, and the document's value, unchanged, for every value the
\* document gives, 0, false and every other JSON value included.
C9_DefaultsOnlyWhenAbsent ==
    \A p \in Calls : Resolved(p) => DefaultsFollow(p, KeptOrDefault)

\* C9 amended: the three fields are the defaults exactly when the
\* document omits the field or gives null for it, and the document's value,
\* unchanged, for every other value, 0, false and the empty string included.
C9_DefaultsWhenAbsentOrNull ==
    \A p \in Calls : Resolved(p) => DefaultsFollow(p, KeptUnlessNull)

\* A material that gives the emissive intensity 0 has been imported.
C9_Witness ==
    \E p \in Calls :
        /\ Resolved(p)
        /\ \E i \in DOMAIN Tree(file[p]).v.materials.v :
              /\ Field(Tree(file[p]).v.materials.v[i], "emissiveIntensity") = N(0)
              /\ result[p].v.materials.v[i].v.emissiveIntensity = N(0)

\* The containers reachable from a value, by their identities.
RECURSIVE Refs(_)
Refs(x) ==
    IF x.t \in {"arr", "obj"}
    THEN {x.ref} \cup UNION {Refs(x.v[k]) : k \in DOMAIN x.v}
    ELSE {}

\* C10: no sequence or record reachable from the result of a call is a
\* container of the parsed document, so that a change of the one is never
\* seen in the other.
C10_ResultSharesNoContainer ==
    \A p \in Calls : Resolved(p) => Refs(result[p]) \cap Refs(doc[p]) = {}

\* The fields of the result that hold the lights and the cameras.
ResourceFieldNames == {"lights", "cameras"}

\* The ids of the elements of a sequence of the document.
ElementIds(arr) == {PropertyKey(Field(arr.v[i], "id")) : i \in DOMAIN arr.v}

\* The last element of the sequence that has the id.
LastWithId(arr, id) ==
    arr.v[CHOOSE i \in DOMAIN arr.v :
             /\ PropertyKey(Field(arr.v[i], "id")) = id
             /\ \A j \in DOMAIN arr.v :
                   PropertyKey(Field(arr.v[j], "id")) = id => j <= i]

\* C11 as stated: lights, and cameras, of the result is absent exactly
\* when the document has no such field; for a sequence it is a mapping with
\* one entry for each element, under the element's id.
C11_ResourcesOnePerElement ==
    \A p \in Calls : Resolved(p) =>
        \A f \in ResourceFieldNames :
            LET src == Field(doc[p], f)
                out == result[p].v[f]
            IN  /\ out = Undefined <=> ~Has(doc[p], f)
                /\ src.t = "arr" =>
                     /\ out.t = "obj"
                     /\ Cardinality(DOMAIN out.v) = Len(src.v)
                     /\ \A i \in DOMAIN src.v :
                           out.v[PropertyKey(Field(src.v[i], "id"))] = src.v[i]

\* C11 amended: lights, and cameras, of the result is absent exactly when
\* the document has no such field or gives a falsy value, such as null, for
\* it; for a sequence, the empty one included, it is a mapping with one
\* entry for each id of an element, holding the last element of that id.
C11_ResourcesOnePerId ==
    \A p \in Calls : Resolved(p) =>
        \A f \in ResourceFieldNames :
            LET src == Field(doc[p], f)
                out == result[p].v[f]
            IN  /\ out = Undefined <=> ~Truthy(src)
                /\ src.t = "arr" =>
                     /\ out.t = "obj"
                     /\ DOMAIN out.v = ElementIds(src)
                     /\ \A id \in ElementIds(src) : out.v[id] = LastWithId(src, id)

\* A document with an empty sequence of lights and no cameras field has
\* been imported: the lights are the empty mapping, the cameras absent.
C11_Witness ==
    \E p \in Calls :
        /\ Resolved(p)
        /\ Has(doc[p], "lights") /\ doc[p].v.lights.t = "arr" /\ doc[p].v.lights.v = <<>>
        /\ result[p].v.lights.t = "obj" /\ result[p].v.lights.v = EmptyMap
        /\ ~Has(doc[p], "cameras") /\ result[p].v.cameras = Undefined

\* C12: when the handler of a change event with a file has ended, one
\* callback has been called, once: onError with the error, and onImport
\* not at all, when the import rejected; onImport with the whole result,
\* and onError not at all, when it resolved; and the value of the input has
\* been cleared.
C12_ExactlyOneCallback ==
    (input.phase \in {"done", "unhandled"} /\ input.outcome # "none")
    => /\ input.outcome = "rejected" =>
            input.onError = <<input.error>> /\ input.onImport = <<>>
       /\ input.outcome = "resolved" =>
            input.onImport = <<input.data>> /\ input.onError = <<>>
       /\ input.value = ""

\* The clips of a well-formed animations payload, in document order, and
\* the active clip the payload asks for: the declared one, else the first
\* clip, else none.
ClipSeq(d) ==
    LET clips == Field(Field(d, "animations"), "clips")
    IN  IF clips.t = "arr" THEN clips.v ELSE <<>>
ClipIdsInOrder(d) == [i \in DOMAIN ClipSeq(d) |-> Field(ClipSeq(d)[i], "id")]
TrackSeq(c) == IF Field(c, "tracks").t = "arr" THEN Field(c, "tracks").v ELSE <<>>
DeclaredActiveClip(d) == Field(Field(d, "animations"), "activeClipId")
ExpectedActiveClip(d) ==
    IF ~Nullish(DeclaredActiveClip(d)) THEN DeclaredActiveClip(d)
    ELSE IF ClipSeq(d) # <<>> /\ ~Nullish(Field(ClipSeq(d)[1], "id"))
         THEN Field(ClipSeq(d)[1], "id")
    ELSE Null

\* The clips, clipOrder, tracks and active clip of container s are those of
\* document d, and of d alone.
CameFrom(s, d) ==
    IF ~Truthy(Field(d, "animations"))
    THEN /\ s.clips = EmptyMap /\ s.clipOrder = <<>>
         /\ s.tracks = EmptyMap /\ s.activeClipId = Null
    ELSE /\ DOMAIN s.clips = DocClipIds(d)
         /\ s.clipOrder = ClipIdsInOrder(d)
         /\ DOMAIN s.tracks = DocTrackIds(d)
         /\ s.activeClipId = ExpectedActiveClip(d)
         /\ \A i \in DOMAIN ClipSeq(d) :
               LET c == ClipSeq(d)[i]
                   made == s.clips[PropertyKey(Field(c, "id"))]
               IN  /\ made.v.name = Field(c, "name")
                   /\ made.v.trackIds.v = [j \in DOMAIN TrackSeq(c) |->
                                              Field(TrackSeq(c)[j], "id")]
                   /\ \A j \in DOMAIN TrackSeq(c) :
                         s.tracks[PropertyKey(Field(TrackSeq(c)[j], "id"))].v.targetId
                            = Field(TrackSeq(c)[j], "targetId")

C14_RootObjectsAndViewportRequired ==
    \A p \in Calls :
        (/\ Done(p) /\ ParsesAsJson(file[p])
         /\ \A f \in RequiredFields : Truthy(Field(Tree(file[p]), f))
         /\ ~Has(Tree(file[p]), "rootObjects") \/ ~Has(Tree(file[p]), "viewport"))
        => Rejected(p) /\ error[p] = MissingFieldError

\* The first of the four checks that the file fails: the entry, the
\* syntax, the required fields, the version; "none" when it passes them.
FirstDefect(f) ==
    IF ~f.zip THEN "archive"
    ELSE IF ~HasSceneText(f) THEN "entry"
    ELSE IF SceneText(f).syntax # "json" THEN "syntax"
    ELSE IF \E r \in RequiredFields : ~Truthy(Field(Tree(f), r)) THEN "fields"
    ELSE IF Field(Field(Tree(f).v.metadata, "version"), "major") # T3D_VERSION.major
         THEN "version"
    ELSE "none"

\* The document of the file states another major version.
StatesOtherMajor(f) ==
    /\ ParsesAsJson(f)
    /\ IsNum(Field(Field(Field(Tree(f), "metadata"), "version"), "major"))
    /\ Field(Field(Field(Tree(f), "metadata"), "version"), "major") # T3D_VERSION.major

\* C15: the checks are made in the order entry, syntax, required fields,
\* version, and the error is that of the first that fails, whatever fails
\* after it: a document without a required field is never rejected for its
\* version; and no step of a call writes to the animation container, or
\* yields a result, unless the file passes the four checks.
C15_ChecksInOrder ==
    [][\A p \in Calls :
          (pc[p] # pc'[p] /\ pc'[p] \in {"resolved", "rejected"})
          => LET first == FirstDefect(file'[p])
             IN  /\ first = "entry" => error'[p] = MissingEntryError
                 /\ first = "syntax" => error'[p] = MalformedJsonError
                 /\ first = "fields" =>
                      /\ ~IsVersionMismatch(error'[p])
                      /\ Tree(file'[p]) # Null => error'[p] = MissingFieldError
                 /\ first = "version" /\ StatesOtherMajor(file'[p])
                      => IsVersionMismatch(error'[p])
                 /\ first # "none" =>
                      /\ pc'[p] = "rejected"
                      /\ store' = store /\ result'[p] = Undefined]_vars

\* A document that lacks meshes and states another major version has been
\* rejected with the missing-field error.
C15_Witness ==
    \E p \in Calls :
        /\ Rejected(p) /\ ParsesAsJson(file[p])
        /\ ~Has(Tree(file[p]), "meshes")
        /\ StatesOtherMajor(file[p])
        /\ error[p] = MissingFieldError

\* C16: after a call that resolved, the container's fps is the fps of
\* the animations payload when the document has one that gives an fps, and
\* what it was before the call otherwise; autoKey and snapping are what
\* they were; timelinePanelOpen and lastUsedFps are what they were when the
\* document has no ui payload, and lastUsedFps differs from what it was
\* only by being the one a ui payload gives.
C16_FpsAndPreferencesKept ==
    \A p \in Calls : Resolved(p) =>
        LET anim == Field(doc[p], "animations")
            ui == Field(doc[p], "ui")
        IN  /\ store.fps = IF Truthy(anim) /\ ~Nullish(Field(anim, "fps"))
                           THEN Field(anim, "fps") ELSE pre[p].fps
            /\ store.autoKey = pre[p].autoKey
            /\ store.snapping = pre[p].snapping
            /\ ~Has(doc[p], "ui") =>
                  /\ store.timelinePanelOpen = pre[p].timelinePanelOpen
                  /\ store.lastUsedFps = pre[p].lastUsedFps
            /\ store.lastUsedFps # pre[p].lastUsedFps =>
                  /\ ~Nullish(Field(ui, "lastUsedFps"))
                  /\ store.lastUsedFps = Field(ui, "lastUsedFps")

\* A document whose animations payload gives no fps and whose ui payload
\* gives a lastUsedFps has been imported into a container of another fps
\* and with autoKey on.
C16_Witness ==
    \E p \in Calls :
        /\ Resolved(p)
        /\ Truthy(Field(doc[p], "animations"))
        /\ ~Has(doc[p].v.animations, "fps")
        /\ pre[p].fps # BaselineStore.fps /\ store.fps = pre[p].fps
        /\ pre[p].autoKey = B(TRUE) /\ store.autoKey = B(TRUE)
        /\ Has(doc[p], "ui") /\ Has(doc[p].v.ui, "lastUsedFps")
        /\ store.lastUsedFps = doc[p].v.ui.v.lastUsedFps
        /\ store.lastUsedFps # pre[p].lastUsedFps

\* The active clip of the container is none or a clip the container holds.
ActiveClipHeld(s) ==
    s.activeClipId # Null => PropertyKey(s.activeClipId) \in DOMAIN s.clips

\* C17 as stated: after a call that resolved on a document with an
\* animations payload the active clip is the one the payload declares,
\* else the first clip, else none, and it is none or a clip the container
\* holds.
C17_ActiveClipDeclaredAndHeld ==
    \A p \in Calls :
        (Resolved(p) /\ Truthy(Field(doc[p], "animations")))
        => /\ store.activeClipId = ExpectedActiveClip(doc[p])
           /\ ActiveClipHeld(store)

\* C17 amended: when the projection of the payload went through, the
\* active clip is the one the payload declares, else the first clip, else
\* none; when it failed at a clip or a track, the active clip is none; the
\* active clip is none or a clip the container holds unless the payload
\* declares an id that none of its clips has.
C17_ActiveClipAsProjected ==
    \A p \in Calls :
        (Resolved(p) /\ Truthy(Field(doc[p], "animations")))
        => /\ ~projThrew[p] => store.activeClipId = ExpectedActiveClip(doc[p])
           /\ projThrew[p] => store.activeClipId = Null
           /\ \/ Nullish(DeclaredActiveClip(doc[p]))
              \/ PropertyKey(DeclaredActiveClip(doc[p])) \in DocClipIds(doc[p])
              => ActiveClipHeld(store)

\* A document of two clips that declares the second active has been
\* imported: the second clip is active, and the container holds it.
C17_Witness ==
    \E p \in Calls :
        /\ Resolved(p) /\ ~projThrew[p]
        /\ Len(ClipSeq(doc[p])) = 2
        /\ DeclaredActiveClip(doc[p]) = Field(ClipSeq(doc[p])[2], "id")
        /\ store.activeClipId = DeclaredActiveClip(doc[p])
        /\ PropertyKey(store.activeClipId) \in DOMAIN store.clips

\* The keyframes made for a track are the keys of the document's track,
\* in their order.
KeysFollow(made, t) ==
    LET keys == Field(t, "keys").v
    IN  /\ Len(made) = Len(keys)
        /\ \A n \in DOMAIN keys :
              /\ made[n].v.id = Field(keys[n], "id")
              /\ made[n].v.t = Field(keys[n], "t")
              /\ made[n].v.v = Field(keys[n], "v")
              /\ made[n].v.interp = Field(keys[n], "interp")

\* Container s is consistent with the clips of document d it holds.
ConsistentWith(s, d) ==
    LET order == s.clipOrder
    IN  /\ \A i, j \in DOMAIN order : i # j => order[i] # order[j]
        /\ {PropertyKey(order[i]) : i \in DOMAIN order} = DOMAIN s.clips
        /\ Len(order) <= Len(ClipSeq(d))
        /\ \A i \in DOMAIN order :
              LET c == ClipSeq(d)[i]
                  made == s.clips[PropertyKey(order[i])]
              IN  /\ order[i] = Field(c, "id")
                  /\ made.v.trackIds.v
                        = [j \in DOMAIN TrackSeq(c) |-> Field(TrackSeq(c)[j], "id")]
                  /\ \A j \in DOMAIN TrackSeq(c) :
                        LET key == PropertyKey(Field(TrackSeq(c)[j], "id"))
                        IN  /\ key \in DOMAIN s.tracks
                            /\ s.tracks[key].v.targetType = S("sceneObject")
                            /\ KeysFollow(s.tracks[key].v.channel.v.keys.v,
                                          TrackSeq(c)[j])
        /\ \A k \in DOMAIN s.tracks :
              \E i \in DOMAIN order :
                  \E j \in DOMAIN TrackSeq(ClipSeq(d)[i]) :
                      PropertyKey(Field(TrackSeq(ClipSeq(d)[i])[j], "id")) = k

\* C18 as stated: after the projection of a payload, one that failed part-way
\* included, clipOrder lists without repetition and in document order the
\* ids that are the keys of clips; the trackIds of a clip are the ids of
\* its tracks in document order, each a key of tracks; and every track has
\* the target type sceneObject and one channel with the track's keys in
\* their order.
C18_ContainerConsistent ==
    \A p \in Calls : Resolved(p) => ConsistentWith(store, doc[p])

\* i is the place of the last clip of its id among those clipOrder lists.
LastOfItsId(order, i) == \A j \in DOMAIN order : order[j] = order[i] => j <= i

\* Container s holds the clips of document d that clipOrder lists, the
\* later of two clips of one id.
HoldsClipsOf(s, d) ==
    LET order == s.clipOrder
    IN  /\ {PropertyKey(order[i]) : i \in DOMAIN order} = DOMAIN s.clips
        /\ Len(order) <= Len(ClipSeq(d))
        /\ \A i \in DOMAIN order :
              LET c == ClipSeq(d)[i]
                  made == s.clips[PropertyKey(order[i])]
              IN  /\ order[i] = Field(c, "id")
                  /\ LastOfItsId(order, i) =>
                        made.v.trackIds.v
                           = [j \in DOMAIN TrackSeq(c) |-> Field(TrackSeq(c)[j], "id")]
                  /\ \A j \in DOMAIN TrackSeq(c) :
                        LET key == PropertyKey(Field(TrackSeq(c)[j], "id"))
                        IN  /\ key \in DOMAIN s.tracks
                            /\ s.tracks[key].v.targetType = S("sceneObject")
                            /\ KeysFollow(s.tracks[key].v.channel.v.keys.v,
                                          TrackSeq(c)[j])
        /\ \A k \in DOMAIN s.tracks :
              \E i \in DOMAIN order :
                  \E j \in DOMAIN TrackSeq(ClipSeq(d)[i]) :
                      PropertyKey(Field(TrackSeq(ClipSeq(d)[i])[j], "id")) = k
        /\ (\A i, j \in DOMAIN ClipSeq(d) :
               i # j => Field(ClipSeq(d)[i], "id") # Field(ClipSeq(d)[j], "id"))
           => \A i, j \in DOMAIN order : i # j => order[i] # order[j]

\* C18 amended: after the projection of a payload, one that failed
\* part-way included, clipOrder lists in document order the ids of the
\* clips made, which are the keys of clips, without repetition when the
\* clips of the payload have different ids; of two clips of one id the
\* later is held, and the id is listed twice.  The trackIds of a clip held
\* are the ids of its tracks in document order, each a key of tracks, and
\* every track has the target type sceneObject and one channel with the
\* track's keys in their order.
C18_ContainerHoldsClipsMade ==
    \A p \in Calls : Resolved(p) => HoldsClipsOf(store, doc[p])

\* A payload whose second clip lacks the keys of a track has been
\* projected: the container holds the first clip and its tracks alone.
C18_Witness ==
    \E p \in Calls :
        /\ Resolved(p) /\ projThrew[p]
        /\ Len(ClipSeq(doc[p])) = 2 /\ Len(store.clipOrder) = 1
        /\ store.clipOrder[1] = Field(ClipSeq(doc[p])[1], "id")
        /\ store.tracks # EmptyMap

\* C19: a call that rejects, whatever the error, leaves the animation
\* container as it was before the call: the container changes in no step
\* but the one in which a call resolves, after the checks and every
\* conversion went through.
C19_RejectionLeavesContainer ==
    [][(\A p \in Calls : pc'[p] = "resolved" => pc[p] = "resolved")
          => store' = store]_vars

\* A call was rejected out of a converter, after both checks, with the
\* container in use.
C19_Witness ==
    \E p \in Calls :
        /\ Rejected(p) /\ error[p] = TypeError
        /\ doc[p] # Undefined /\ doc[p] # Null
        /\ ~IsThrow(ValidateStructure(doc[p]))
        /\ ~IsThrow(CheckVersion(doc[p]))
        /\ store = UsedStore

\* C20: however the calls overlap, once a call has resolved the clips,
\* clipOrder, tracks and active clip of the container are those of the
\* document of one resolved call, whole and with nothing of another
\* document or of what the container held before; a call that rejects or
\* is still under way has put nothing in.
C20_ContainerOfOneImport ==
    (\E p \in Calls : Resolved(p))
    => \E p \in Calls :
          /\ Resolved(p) /\ CameFrom(store, doc[p])
          /\ pre[p] # NoStore
          /\ \A q \in Calls : ~Resolved(q) => pre[q] = NoStore

\* Two calls overlapped and resolved one after the other with documents of
\* different clips, the first into a container in use; the container
\* holds the clips of the second alone.
C20_Witness ==
    \E p, q \in Calls :
        /\ p # q /\ Resolved(p) /\ Resolved(q)
        /\ pre[q].clips = UsedStore.clips
        /\ CameFrom(pre[p], doc[q])
        /\ DocClipIds(doc[q]) # {}
        /\ DocClipIds(doc[p]) # {}
        /\ DocClipIds(doc[p]) \cap DocClipIds(doc[q]) = {}
        /\ DOMAIN store.clips = DocClipIds(doc[p])

=============================================================================
